---- MODULE Spec2Model ----
(***************************************************************************)
(* Model of the PDF batch-renaming / export tool of                        *)
(* src/src/routes/cm2pohoda/index.tsx (the second route component of the   *)
(* file, lines 106-869), and of the CSV previewer (the first route         *)
(* component of the file, lines 15-104).                                   *)
(*                                                                         *)
(* Strings are sequences of one-character strings, so that the string      *)
(* functions of the source (trim, replace, lastIndexOf, substring, the     *)
(* template literals) are computed character by character.                 *)
(***************************************************************************)
EXTENDS Integers, Sequences, FiniteSets, TLC

VARIABLES
    files,           \* useState<FileData[]>            (line 167)
    selectedPdfKey,  \* useState<string | null>         (line 168)
    metadata,        \* useState<Record<string, PdfMetadata>> (line 169)
    isAskingPrefix,  \* useState(false)                 (line 172)
    prefixValue,     \* useState('')                    (line 173)
    error,           \* useState('')                    (line 174)
    exports,         \* the handleConfirmExport calls suspended at an await
    download,        \* the archive the last step handed to the browser (a.click(), line 482)
    overlap,         \* user events handled since a handleConfirmExport call was suspended
    call,            \* the function call under test of the pure-function specifications
    selectedFile,    \* CSV previewer: useState<File | null>          (line 16)
    parsedData,      \* CSV previewer: useState<ParsedCSVData | null> (line 17)
    csvError,        \* CSV previewer: useState<string>, `error`      (line 18)
    parsing          \* CSV previewer: the Papa.parse calls that have not called back yet

vars == <<files, selectedPdfKey, metadata, isAskingPrefix, prefixValue, error,
          exports, download, overlap, call, selectedFile, parsedData, csvError, parsing>>

uiVars == <<files, selectedPdfKey, metadata, isAskingPrefix, prefixValue, error,
            exports, download, overlap>>

\* The state of the CSV previewer, a page of its own.
csvVars == <<selectedFile, parsedData, csvError, parsing>>

(***************************************************************************)
(* Characters                                                              *)
(***************************************************************************)

\* Representatives of the class \s of the regular expressions, which is also
\* the class String.prototype.trim() strips (WhiteSpace and LineTerminator).
WhiteSpace == {" ", "\t"}

\* The character class [/\\:*?"<>|] of line 157.
Reserved == {"/", "\\", ":", "*", "?", "\"", "<", ">", "|"}

Hyphen == "-"

\* The class \d of DATE_REGEX.
Digit == {"0", "1", "2", "3", "4", "5", "6", "7", "8", "9"}

(***************************************************************************)
(* String helpers                                                          *)
(***************************************************************************)

RECURSIVE DropLeading(_, _)
\* s without its longest prefix of characters of class C.
DropLeading(s, C) ==
    IF s = <<>> \/ Head(s) \notin C THEN s ELSE DropLeading(Tail(s), C)

RECURSIVE DropTrailing(_, _)
\* s without its longest suffix of characters of class C.
DropTrailing(s, C) ==
    IF s = <<>> \/ s[Len(s)] \notin C THEN s
    ELSE DropTrailing(SubSeq(s, 1, Len(s) - 1), C)

\* String.prototype.trim()
Trim(s) == DropTrailing(DropLeading(s, WhiteSpace), WhiteSpace)

RECURSIVE ReplaceRuns(_, _, _)
\* s.replace(/C+/g, r): every maximal run of characters of class C becomes r.
ReplaceRuns(s, C, r) ==
    IF s = <<>> THEN <<>>
    ELSE IF Head(s) \in C THEN <<r>> \o ReplaceRuns(DropLeading(s, C), C, r)
    ELSE <<Head(s)>> \o ReplaceRuns(Tail(s), C, r)

\* s.replace(/[C]/g, r): every character of class C becomes r.
ReplaceEach(s, C, r) == [i \in 1..Len(s) |-> IF s[i] \in C THEN r ELSE s[i]]

(***************************************************************************)
(* sanitizeSegment, validateSegment (lines 153-164)                        *)
(***************************************************************************)

\* line 156: .replace(/\s+/g, '-')
HyphenateWhiteSpace(s) == ReplaceRuns(s, WhiteSpace, Hyphen)

\* Mutant of HyphenateReserved: the expression without its g flag, so that
\* only the first reserved character is replaced.
HyphenateReservedOnce(s) ==
    IF \E i \in 1..Len(s) : s[i] \in Reserved
    THEN LET first == CHOOSE i \in 1..Len(s) :
                        s[i] \in Reserved /\ \A j \in 1..(i - 1) : s[j] \notin Reserved
         IN [s EXCEPT ![first] = Hyphen]
    ELSE s

\* line 157: .replace(/[/\\:*?"<>|]/g, '-')
HyphenateReserved(s) == ReplaceEach(s, Reserved, Hyphen)

\* line 158: .replace(/-+/g, '-')
CollapseHyphens(s) == ReplaceRuns(s, {Hyphen}, Hyphen)

\* line 159: .replace(/^-+|-+$/g, '')
StripHyphens(s) == DropTrailing(DropLeading(s, {Hyphen}), {Hyphen})

\* Mutant of sanitizeSegment: the hyphens at the ends are stripped first
\* instead of last.
sanitizeSegmentStripFirst(segment) ==
    CollapseHyphens(HyphenateReserved(HyphenateWhiteSpace(Trim(StripHyphens(segment)))))

sanitizeSegment(segment) ==
    StripHyphens(CollapseHyphens(HyphenateReserved(HyphenateWhiteSpace(Trim(segment)))))

\* Mutant of validateSegment: the segment is trimmed but not sanitized.
validateSegmentTrimOnly(segment) == Len(Trim(segment)) > 0

validateSegment(segment) == Len(sanitizeSegment(segment)) > 0

(***************************************************************************)
(* Files and keys                                                          *)
(***************************************************************************)

DecimalDigits == <<"0", "1", "2", "3", "4", "5", "6", "7", "8", "9">>

RECURSIVE NumberToString(_)
\* The decimal numeral a template literal prints for a natural number.
NumberToString(n) ==
    IF n < 10 THEN <<DecimalDigits[n + 1]>>
    ELSE NumberToString(n \div 10) \o <<DecimalDigits[(n % 10) + 1]>>

UpperCase == <<"A", "B", "C", "D", "E", "F", "G", "H", "I", "J", "K", "L", "M",
               "N", "O", "P", "Q", "R", "S", "T", "U", "V", "W", "X", "Y", "Z">>

LowerCase == <<"a", "b", "c", "d", "e", "f", "g", "h", "i", "j", "k", "l", "m",
               "n", "o", "p", "q", "r", "s", "t", "u", "v", "w", "x", "y", "z">>

LowerChar(c) ==
    IF \E i \in 1..26 : UpperCase[i] = c
    THEN LowerCase[CHOOSE i \in 1..26 : UpperCase[i] = c]
    ELSE c

\* String.prototype.toLowerCase()
ToLowerCase(s) == [i \in 1..Len(s) |-> LowerChar(s[i])]

\* String.prototype.endsWith(suffix)
EndsWith(s, suffix) ==
    /\ Len(suffix) <= Len(s)
    /\ SubSeq(s, Len(s) - Len(suffix) + 1, Len(s)) = suffix

\* String.prototype.lastIndexOf(c), 0-based, -1 when c does not occur.
LastIndexOf(s, c) ==
    IF \E i \in 1..Len(s) : s[i] = c
    THEN (CHOOSE i \in 1..Len(s) : s[i] = c /\ \A j \in (i + 1)..Len(s) : s[j] # c) - 1
    ELSE -1

PdfMime == "application/pdf"

\* A browser File: its name (a string), size, lastModified and MIME type.
File(name, size, lastModified, type) ==
    [name |-> name, size |-> size, lastModified |-> lastModified, type |-> type]

\* line 150: `${file.name}|${file.size}|${file.lastModified}`
getFileKey(file) ==
    file.name \o <<"|">> \o NumberToString(file.size) \o <<"|">> \o NumberToString(file.lastModified)

\* Mutant of IsPdfFile: the extension is compared as it is written.
IsPdfFileCaseSensitive(file) ==
    file.type = PdfMime \/ EndsWith(file.name, <<".", "p", "d", "f">>)

\* lines 264-266
IsPdfFile(file) ==
    file.type = PdfMime \/ EndsWith(ToLowerCase(file.name), <<".", "p", "d", "f">>)

\* lines 261-267: the FileData of an uploaded file (the blob url of lines 220-244
\* serves the preview only and is left out).
FileData(file) == [file |-> file, key |-> getFileKey(file), isPdf |-> IsPdfFile(file)]

\* line 181
PdfFilesOf(fs) == SelectSeq(fs, LAMBDA f : f.isPdf)

\* line 182
OtherFilesOf(fs) == SelectSeq(fs, LAMBDA f : ~f.isPdf)

pdfFiles == PdfFilesOf(files)

otherFiles == OtherFilesOf(files)

\* selectedPdfKey === null; a key is never the empty string (it holds two "|").
Null == <<>>

\* line 183: pdfFiles.find((f) => f.key === selectedPdfKey) is defined
HasSelectedPdf == \E i \in 1..Len(pdfFiles) : pdfFiles[i].key = selectedPdfKey

(***************************************************************************)
(* getPdfStatus, allPdfsReady (lines 325-378)                              *)
(***************************************************************************)

\* const MAX_FILES = 100 (line 129), scaled down to keep the file lists
\* enumerable.
MAX_FILES == 3

\* Mutant of DATE_REGEX: the expression without its anchors, /\d{4}-\d{2}-\d{2}/.
DateRegexUnanchored(date) ==
    \E o \in 0..(Len(date) - 10) :
        /\ \A i \in {1, 2, 3, 4, 6, 7, 9, 10} : date[o + i] \in Digit
        /\ date[o + 5] = Hyphen
        /\ date[o + 8] = Hyphen

\* line 130: /^\d{4}-\d{2}-\d{2}$/.test(date)
DATE_REGEX(date) ==
    /\ Len(date) = 10
    /\ \A i \in {1, 2, 3, 4, 6, 7, 9, 10} : date[i] \in Digit
    /\ date[5] = Hyphen
    /\ date[8] = Hyphen

\* `!s` of a string s
Falsy(s) == s = <<>>

\* Mutant of PdfStatusIn: the sanitization checks come before the date check.
PdfStatusSanitizeFirst(store, prefix, key, includePrefix) ==
    IF key \notin DOMAIN store
    THEN [status |-> "missing", message |-> "No metadata"]
    ELSE LET meta == store[key] IN
      IF Falsy(meta.distributor) \/ Falsy(meta.invoiceNumber) \/ Falsy(meta.date)
      THEN [status |-> "missing", message |-> "Missing fields"]
      ELSE IF ~validateSegment(meta.distributor)
      THEN [status |-> "invalid",
            message |-> "Invalid distributor (empty after sanitization)"]
      ELSE IF ~validateSegment(meta.invoiceNumber)
      THEN [status |-> "invalid",
            message |-> "Invalid invoice number (empty after sanitization)"]
      ELSE IF ~DATE_REGEX(meta.date)
      THEN [status |-> "invalid", message |-> "Invalid date format (YYYY-MM-DD)"]
      ELSE IF includePrefix /\ ~Falsy(prefix) /\ ~validateSegment(prefix)
      THEN [status |-> "invalid", message |-> "Invalid prefix"]
      ELSE [status |-> "ready"]

\* lines 330-369, on the metadata store `store` and prefix `prefix` the
\* callback closes over.
PdfStatusIn(store, prefix, key, includePrefix) ==
    IF key \notin DOMAIN store
    THEN [status |-> "missing", message |-> "No metadata"]
    ELSE LET meta == store[key] IN
      IF Falsy(meta.distributor) \/ Falsy(meta.invoiceNumber) \/ Falsy(meta.date)
      THEN [status |-> "missing", message |-> "Missing fields"]
      ELSE IF ~DATE_REGEX(meta.date)
      THEN [status |-> "invalid", message |-> "Invalid date format (YYYY-MM-DD)"]
      ELSE IF ~validateSegment(meta.distributor)
      THEN [status |-> "invalid",
            message |-> "Invalid distributor (empty after sanitization)"]
      ELSE IF ~validateSegment(meta.invoiceNumber)
      THEN [status |-> "invalid",
            message |-> "Invalid invoice number (empty after sanitization)"]
      ELSE IF includePrefix /\ ~Falsy(prefix) /\ ~validateSegment(prefix)
      THEN [status |-> "invalid", message |-> "Invalid prefix"]
      ELSE [status |-> "ready"]

getPdfStatus(key, includePrefix) == PdfStatusIn(metadata, prefixValue, key, includePrefix)

\* Mutant of allPdfsReady: only a missing status blocks, an invalid one passes.
allPdfsNotMissing ==
    \A i \in 1..Len(pdfFiles) : getPdfStatus(pdfFiles[i].key, TRUE).status # "missing"

\* lines 374-378
allPdfsReady ==
    \A i \in 1..Len(pdfFiles) : getPdfStatus(pdfFiles[i].key, TRUE).status = "ready"

\* line 184
isAtLimit == Len(files) >= MAX_FILES

(***************************************************************************)
(* The file names of the archive (lines 422-468)                           *)
(***************************************************************************)

\* Mutant of OtherNameWithCounter: the counter is always appended at the end.
OtherNameCounterAtEnd(name, counter) == name \o <<"-">> \o NumberToString(counter)

\* lines 433-440: the name of a non-PDF file with the counter put in.
OtherNameWithCounter(name, counter) ==
    LET dotIndex == LastIndexOf(name, ".") IN
    IF dotIndex > 0
    THEN SubSeq(name, 1, dotIndex) \o <<"-">> \o NumberToString(counter)
           \o SubSeq(name, dotIndex + 1, Len(name))
    ELSE name \o <<"-">> \o NumberToString(counter)

\* Mutant of OtherNameLoop: an `if` for the `while`, the first name with a
\* counter is taken unchecked.
OtherNameLoopOnce(name, counter, usedNames) == OtherNameWithCounter(name, counter)

RECURSIVE OtherNameLoop(_, _, _)
\* lines 432-442: the while loop, entered with `filename` taken.
OtherNameLoop(name, counter, usedNames) ==
    LET filename == OtherNameWithCounter(name, counter) IN
    IF filename \in usedNames THEN OtherNameLoop(name, counter + 1, usedNames)
    ELSE filename

\* lines 428-442
OtherFilename(name, usedNames) ==
    IF name \in usedNames THEN OtherNameLoop(name, 2, usedNames) ELSE name

\* lines 451-455 and 460: the stem the PDF's names are built on.
PdfStem(sanitizedPrefix, meta) ==
    sanitizedPrefix \o <<"-">> \o sanitizeSegment(meta.distributor) \o <<"-">>
      \o sanitizeSegment(meta.invoiceNumber) \o <<"-">> \o Trim(meta.date)

DotPdf == <<".", "p", "d", "f">>

\* Mutant of PdfNameLoop: the counter follows the stem with no hyphen, and the
\* name is taken unchecked.
PdfNameLoopNoHyphen(stem, counter, usedNames) ==
    stem \o NumberToString(counter) \o DotPdf

RECURSIVE PdfNameLoop(_, _, _)
\* lines 459-462: the while loop, entered with `filename` taken.
PdfNameLoop(stem, counter, usedNames) ==
    LET filename == stem \o <<"-">> \o NumberToString(counter) \o DotPdf IN
    IF filename \in usedNames THEN PdfNameLoop(stem, counter + 1, usedNames)
    ELSE filename

\* lines 455-462
PdfFilename(sanitizedPrefix, meta, usedNames) ==
    LET stem == PdfStem(sanitizedPrefix, meta) IN
    IF stem \o DotPdf \in usedNames THEN PdfNameLoop(stem, 2, usedNames)
    ELSE stem \o DotPdf

\* zipContents[filename] = bytes: the entry of that name is set or replaced.
SetEntry(zipContents, filename, bytes) ==
    [n \in DOMAIN zipContents \cup {filename} |->
        IF n = filename THEN bytes ELSE zipContents[n]]

EmptyRecord == [n \in {} |-> <<>>]

\* lines 411-423: a call of handleConfirmExport suspended at its first await.
\* It holds what its closure captured (prefixValue, otherFiles, pdfFiles,
\* metadata: the useCallback dependencies of line 494) and its locals; `filenames`
\* lists the value of `filename` at the end of every completed iteration.
NewExport(sanitizedPrefix) ==
    [prefixValue     |-> prefixValue,
     sanitizedPrefix |-> sanitizedPrefix,
     otherFiles      |-> otherFiles,
     pdfFiles        |-> pdfFiles,
     metadata        |-> metadata,
     usedNames       |-> {},
     zipContents     |-> EmptyRecord,
     filenames       |-> <<>>]

\* The files of the call in the order its two loops visit them.
ExportOrder(e) == e.otherFiles \o e.pdfFiles

\* One iteration of the loop of lines 426-446 or of the loop of lines 449-468,
\* for the next file of the call.
ExportIteration(e) ==
    LET fileData == ExportOrder(e)[Len(e.filenames) + 1]
        filename == IF fileData.isPdf
                    THEN PdfFilename(e.sanitizedPrefix, e.metadata[fileData.key], e.usedNames)
                    ELSE OtherFilename(fileData.file.name, e.usedNames)
    IN [e EXCEPT !.usedNames = @ \cup {filename},
                 !.zipContents = SetEntry(@, filename, fileData.file),
                 !.filenames = Append(@, filename)]

\* line 480
ArchiveName(sanitizedPrefix) ==
    sanitizedPrefix \o <<"-", "e", "x", "p", "o", "r", "t", ".", "z", "i", "p">>

RemoveAt(s, i) == SubSeq(s, 1, i - 1) \o SubSeq(s, i + 1, Len(s))

(***************************************************************************)
(* Inputs of the user events                                               *)
(***************************************************************************)

\* Longest batch of files one selection uploads.
MaxBatch == 2

\* Most handleConfirmExport calls suspended at an await at one time.
MaxExports == 1

\* Most user events handled while a handleConfirmExport call is suspended.
MaxOverlap == 1

\* The files the user picks from: a passthrough file, a PDF by MIME type and
\* a PDF by its (upper-case) extension alone.
UploadFiles ==
    { File(<<"a", ".", "t", "x", "t">>, 1, 7, "text/plain"),
      File(<<"x", ".", "p", "d", "f">>, 1, 7, PdfMime),
      File(<<"Y", ".", "P", "D", "F">>, 2, 7, "") }

\* FileList values of one selection (Array.from(fileList), line 250).
FileLists == UNION { [1..n -> UploadFiles] : n \in 1..MaxBatch }

Fields == {"distributor", "invoiceNumber", "date"}

\* What the user types into a metadata field; the date input is an
\* <input type="date"> (line 709), whose value is empty or a yyyy-mm-dd date.
TypedValues(field) ==
    CASE field = "distributor"   -> { <<>>, <<"a">>, <<"/">> }
      [] field = "invoiceNumber" -> { <<>>, <<"1">> }
      [] field = "date"          -> { <<>>, <<"2", "0", "2", "4", "-", "0", "1", "-", "0", "5">> }

\* What the user types into the prefix input.
TypedPrefixes == { <<>>, <<"p">>, <<"/">> }

NoError == [kind |-> "none"]

\* line 254
LimitError(adding, current) ==
    [kind |-> "Cannot add files", adding |-> adding, limit |-> MAX_FILES,
     current |-> current]

\* line 414
PrefixError == [kind |-> "Prefix is invalid (empty after sanitization)"]

\* line 491
ExportError == [kind |-> "Export failed"]

NoCall == [fn |-> "none"]

\* lines 16-18: the CSV previewer as it is constructed.
NoSelectedFile == [none |-> "File"]

NoParsedData == [none |-> "ParsedCSVData"]

CsvIdle ==
    /\ selectedFile = NoSelectedFile
    /\ parsedData = NoParsedData
    /\ csvError = ""
    /\ parsing = <<>>

(***************************************************************************)
(* Effects                                                                 *)
(***************************************************************************)

EmptyMetadata == [distributor |-> <<>>, invoiceNumber |-> <<>>, date |-> <<>>]

\* lines 201-217: every PDF without a record gets an empty one.
InitializeMetadata(fs, store) ==
    LET keys == { PdfFilesOf(fs)[i].key : i \in 1..Len(PdfFilesOf(fs)) } IN
    [k \in DOMAIN store \cup keys |-> IF k \in DOMAIN store THEN store[k] ELSE EmptyMetadata]

\* The effect of lines 200-218 runs after the render of a state update that
\* changed pdfFiles.length (its dependency, line 218), before the next event.
MetadataEffect(oldFiles, newFiles, store) ==
    IF Len(PdfFilesOf(newFiles)) # Len(PdfFilesOf(oldFiles))
    THEN InitializeMetadata(newFiles, store)
    ELSE store

(***************************************************************************)
(* Event handlers                                                          *)
(***************************************************************************)

\* Mutant of handleFileSelect: a batch that is too long is cut to the room left.
handleFileSelectPartial(fileList) ==
    /\ ~isAtLimit
    /\ download' = <<>>
    /\ LET room == MAX_FILES - Len(files)
           taken == SubSeq(fileList, 1, IF Len(fileList) < room THEN Len(fileList) ELSE room)
       IN /\ error' = IF Len(files) + Len(fileList) > MAX_FILES
                      THEN LimitError(Len(fileList), Len(files)) ELSE NoError
          /\ files' = files \o [i \in 1..Len(taken) |-> FileData(taken[i])]
          /\ metadata' = MetadataEffect(files, files', metadata)
    /\ UNCHANGED <<selectedPdfKey, isAskingPrefix, prefixValue, exports, call, csvVars>>

\* lines 246-272; the file input is disabled at the limit (line 532).
handleFileSelect(fileList) ==
    /\ ~isAtLimit
    /\ download' = <<>>
    /\ IF Len(files) + Len(fileList) > MAX_FILES
       THEN /\ error' = LimitError(Len(fileList), Len(files))
            /\ UNCHANGED <<files, metadata>>
       ELSE /\ error' = NoError
            /\ files' = files \o [i \in 1..Len(fileList) |-> FileData(fileList[i])]
            /\ metadata' = MetadataEffect(files, files', metadata)
    /\ UNCHANGED <<selectedPdfKey, isAskingPrefix, prefixValue, exports, call, csvVars>>

\* Mutant of handleRemoveFile: the record of the removed file is left in the store.
handleRemoveFileKeepsRecord(key) ==
    /\ \E i \in 1..Len(files) : files[i].key = key
    /\ files' = SelectSeq(files, LAMBDA f : f.key # key)
    /\ selectedPdfKey' = IF selectedPdfKey = key THEN Null ELSE selectedPdfKey
    /\ metadata' = MetadataEffect(files, files', metadata)
    /\ download' = <<>>
    /\ UNCHANGED <<isAskingPrefix, prefixValue, error, exports, call, csvVars>>

\* lines 274-293; the Remove button of a listed file (lines 612, 652).
handleRemoveFile(key) ==
    /\ \E i \in 1..Len(files) : files[i].key = key
    /\ files' = SelectSeq(files, LAMBDA f : f.key # key)
    /\ selectedPdfKey' = IF selectedPdfKey = key THEN Null ELSE selectedPdfKey
    /\ metadata' = MetadataEffect(files, files',
                       [k \in DOMAIN metadata \ {key} |-> metadata[k]])
    /\ download' = <<>>
    /\ UNCHANGED <<isAskingPrefix, prefixValue, error, exports, call, csvVars>>

\* Mutant of handleClearAll: the selection is left as it is.
handleClearAllKeepsSelection ==
    /\ Len(files) > 0
    /\ files' = <<>>
    /\ metadata' = MetadataEffect(files, files', EmptyRecord)
    /\ error' = NoError
    /\ download' = <<>>
    /\ UNCHANGED <<selectedPdfKey, isAskingPrefix, prefixValue, exports, call, csvVars>>

\* lines 295-305; the Clear All button is rendered with files.length > 0 (line 534).
handleClearAll ==
    /\ Len(files) > 0
    /\ files' = <<>>
    /\ metadata' = MetadataEffect(files, files', EmptyRecord)
    /\ selectedPdfKey' = Null
    /\ error' = NoError
    /\ download' = <<>>
    /\ UNCHANGED <<isAskingPrefix, prefixValue, exports, call, csvVars>>

\* lines 307-310; a click on a listed PDF (line 578).
handlePdfSelect(key) ==
    /\ \E i \in 1..Len(pdfFiles) : pdfFiles[i].key = key
    /\ selectedPdfKey' = key
    /\ download' = <<>>
    /\ UNCHANGED <<files, metadata, isAskingPrefix, prefixValue, error, exports, call, csvVars>>

\* lines 312-323; the form edits the selected PDF (lines 667-718).
handleMetadataChange(key, field, value) ==
    /\ HasSelectedPdf
    /\ key = selectedPdfKey
    /\ metadata' =
         [k \in DOMAIN metadata \cup {key} |->
            IF k # key THEN metadata[k]
            ELSE [(IF key \in DOMAIN metadata THEN metadata[key] ELSE EmptyMetadata)
                    EXCEPT ![field] = value]]
    /\ download' = <<>>
    /\ UNCHANGED <<files, selectedPdfKey, isAskingPrefix, prefixValue, error, exports, call, csvVars>>

\* lines 812-822: the Export ZIP button is rendered and not disabled.
ExportButtonEnabled == Len(pdfFiles) > 0 /\ ~isAskingPrefix /\ allPdfsReady

\* lines 383-385
FirstBlocking ==
    LET blocking == { i \in 1..Len(pdfFiles) :
                        getPdfStatus(pdfFiles[i].key, FALSE).status # "ready" } IN
    IF blocking = {} THEN Null
    ELSE pdfFiles[CHOOSE i \in blocking : \A j \in blocking : i <= j].key

\* lines 380-403
ExportClickBody ==
    IF ~allPdfsReady
    THEN /\ selectedPdfKey' = IF FirstBlocking # Null THEN FirstBlocking ELSE selectedPdfKey
         /\ UNCHANGED <<isAskingPrefix, prefixValue>>
    ELSE /\ isAskingPrefix' = TRUE
         /\ prefixValue' = <<>>
         /\ UNCHANGED selectedPdfKey

handleExportClick ==
    /\ ExportButtonEnabled
    /\ ExportClickBody
    /\ download' = <<>>
    /\ UNCHANGED <<files, metadata, error, exports, call, csvVars>>

\* lines 834-845: the prefix prompt is rendered.
PrefixPromptShown == Len(pdfFiles) > 0 /\ isAskingPrefix

\* line 842
setPrefixValue(value) ==
    /\ PrefixPromptShown
    /\ prefixValue' = value
    /\ download' = <<>>
    /\ UNCHANGED <<files, selectedPdfKey, metadata, isAskingPrefix, error, exports, call, csvVars>>

\* lines 405-408
handleCancelExport ==
    /\ PrefixPromptShown
    /\ isAskingPrefix' = FALSE
    /\ prefixValue' = <<>>
    /\ download' = <<>>
    /\ UNCHANGED <<files, selectedPdfKey, metadata, error, exports, call, csvVars>>

\* lines 853-858: the Confirm Export button is rendered and not disabled.
ConfirmButtonEnabled == PrefixPromptShown /\ validateSegment(prefixValue)

\* lines 410-423: up to the first await.
ConfirmExportBody ==
    LET sanitizedPrefix == sanitizeSegment(prefixValue) IN
    IF Falsy(sanitizedPrefix)
    THEN /\ error' = PrefixError
         /\ UNCHANGED exports
    ELSE /\ error' = NoError
         /\ exports' = Append(exports, NewExport(sanitizedPrefix))

handleConfirmExport ==
    /\ ConfirmButtonEnabled
    /\ Len(exports) < MaxExports
    /\ ConfirmExportBody
    /\ download' = <<>>
    /\ UNCHANGED <<files, selectedPdfKey, metadata, isAskingPrefix, prefixValue, call, csvVars>>

\* meta.distributor of an undefined meta (line 451) throws.
IterationThrows(e) ==
    LET fileData == ExportOrder(e)[Len(e.filenames) + 1] IN
    fileData.isPdf /\ fileData.key \notin DOMAIN e.metadata

\* The arrayBuffer() the k-th suspended call awaits (lines 427, 466) resolves:
\* the iteration completes, and after the last one lines 470-488 run.
ExportResume(k) ==
    /\ k \in 1..Len(exports)
    /\ IF IterationThrows(exports[k])
       THEN /\ error' = ExportError
            /\ exports' = RemoveAt(exports, k)
            /\ download' = <<>>
            /\ UNCHANGED <<isAskingPrefix, prefixValue>>
       ELSE LET e == ExportIteration(exports[k]) IN
            IF Len(e.filenames) < Len(ExportOrder(e))
            THEN /\ exports' = [exports EXCEPT ![k] = e]
                 /\ download' = <<>>
                 /\ UNCHANGED <<isAskingPrefix, prefixValue, error>>
            ELSE /\ exports' = RemoveAt(exports, k)
                 /\ download' = << [name |-> ArchiveName(e.sanitizedPrefix), export |-> e] >>
                 /\ isAskingPrefix' = FALSE
                 /\ prefixValue' = <<>>
                 /\ UNCHANGED error
    /\ overlap' = IF exports' = <<>> THEN 0 ELSE overlap
    /\ UNCHANGED <<files, selectedPdfKey, metadata, call, csvVars>>

\* The arrayBuffer() the k-th suspended call awaits rejects (the file cannot
\* be read): lines 489-493.
ExportReject(k) ==
    /\ k \in 1..Len(exports)
    /\ error' = ExportError
    /\ exports' = RemoveAt(exports, k)
    /\ download' = <<>>
    /\ overlap' = IF exports' = <<>> THEN 0 ELSE overlap
    /\ UNCHANGED <<files, selectedPdfKey, metadata, isAskingPrefix, prefixValue, call, csvVars>>

(***************************************************************************)
(* The tool: every user event and every completion of a file read          *)
(***************************************************************************)

Init ==
    /\ files = <<>>
    /\ selectedPdfKey = Null
    /\ metadata = EmptyRecord
    /\ isAskingPrefix = FALSE
    /\ prefixValue = <<>>
    /\ error = NoError
    /\ exports = <<>>
    /\ download = <<>>
    /\ overlap = 0
    /\ call = NoCall
    /\ CsvIdle

\* The count of the user events that overlap a suspended call, and its bound.
\* The browser dispatches a user event between two tasks, so also while a
\* handleConfirmExport call waits for a file to be read.
Overlapping ==
    /\ exports # <<>> => overlap < MaxOverlap
    /\ overlap' = IF exports = <<>> THEN 0 ELSE overlap + 1

Next ==
    \/ \E fileList \in FileLists : handleFileSelect(fileList) /\ Overlapping
    \/ \E i \in 1..Len(files) : handleRemoveFile(files[i].key) /\ Overlapping
    \/ handleClearAll /\ Overlapping
    \/ \E i \in 1..Len(pdfFiles) : handlePdfSelect(pdfFiles[i].key) /\ Overlapping
    \/ \E field \in Fields : \E value \in TypedValues(field) :
          handleMetadataChange(selectedPdfKey, field, value) /\ Overlapping
    \/ handleExportClick /\ Overlapping
    \/ \E value \in TypedPrefixes : setPrefixValue(value) /\ Overlapping
    \/ handleCancelExport /\ Overlapping
    \/ handleConfirmExport /\ Overlapping
    \/ \E k \in 1..Len(exports) : ExportResume(k)
    \/ \E k \in 1..Len(exports) : ExportReject(k)

Spec == Init /\ [][Next]_vars

(***************************************************************************)
(* The export alone: the prompt is open on a list of files the user has    *)
(* uploaded and described, and the export is confirmed.                    *)
(***************************************************************************)

\* Longest file list an export is started on (the tool admits 100 files).
MaxExportFiles == 4

\* Passthrough files with an extension, with a name that is another's name
\* with a counter, and with no extension; two PDFs.
ExportFiles ==
    { File(<<"a", ".", "t", "x", "t">>, 1, 7, "text/plain"),
      File(<<"a", "-", "2", ".", "t", "x", "t">>, 1, 7, "text/plain"),
      File(<<"b">>, 1, 7, ""),
      File(<<"x", ".", "p", "d", "f">>, 1, 7, PdfMime),
      File(<<"Y", ".", "P", "D", "F">>, 2, 7, "") }

ADate == <<"2", "0", "2", "4", "-", "0", "1", "-", "0", "5">>

\* Records the user has typed: two that sanitize to the same segments, one of
\* another distributor, and one left empty.
ExportMetadata ==
    { [distributor |-> <<"a">>, invoiceNumber |-> <<"1">>, date |-> ADate],
      [distributor |-> <<"a", "/">>, invoiceNumber |-> <<" ", "1">>, date |-> ADate],
      [distributor |-> <<"b">>, invoiceNumber |-> <<"1">>, date |-> ADate],
      EmptyMetadata }

ExportPrefixes == { <<"p">>, <<" ", "p", ":">>, <<"/">> }

InitExport ==
    /\ files \in { [i \in 1..Len(l) |-> FileData(l[i])] :
                     l \in UNION { [1..n -> ExportFiles] : n \in 1..MaxExportFiles } }
    /\ Len(pdfFiles) > 0
    /\ metadata \in [ { pdfFiles[i].key : i \in 1..Len(pdfFiles) } -> ExportMetadata ]
    /\ isAskingPrefix = TRUE
    /\ prefixValue \in ExportPrefixes
    /\ selectedPdfKey = Null
    /\ error = NoError
    /\ exports = <<>>
    /\ download = <<>>
    /\ overlap = 0
    /\ call = NoCall
    /\ CsvIdle

NextExport ==
    \/ handleConfirmExport /\ Overlapping
    \/ \E k \in 1..Len(exports) : ExportResume(k)
    \/ \E k \in 1..Len(exports) : ExportReject(k)

SpecExport == InitExport /\ [][NextExport]_vars

(***************************************************************************)
(* sanitizeSegment and validateSegment alone: called on a string           *)
(***************************************************************************)

\* Longest string the functions are called on.
MaxSegmentLen == 3

SegmentAlphabet ==
    {" ", "\t", "/", "\\", ":", "*", "?", "\"", "<", ">", "|", "-", "a", "."}

\* "  a//b::c  "
ExampleSegment == <<" ", " ", "a", "/", "/", "b", ":", ":", "c", " ", " ">>

Segments ==
    UNION { [1..n -> SegmentAlphabet] : n \in 0..MaxSegmentLen } \cup {ExampleSegment}

QuietUi ==
    /\ files = <<>>
    /\ selectedPdfKey = Null
    /\ metadata = EmptyRecord
    /\ isAskingPrefix = FALSE
    /\ prefixValue = <<>>
    /\ error = NoError
    /\ exports = <<>>
    /\ download = <<>>
    /\ overlap = 0
    /\ CsvIdle

InitSanitize ==
    /\ QuietUi
    /\ call \in { [fn |-> "input", segment |-> s] : s \in Segments }

\* sanitizeSegment(segment)
CallSanitize ==
    /\ call.fn = "input"
    /\ call' = [fn |-> "sanitizeSegment", segment |-> call.segment,
                result |-> sanitizeSegment(call.segment)]
    /\ UNCHANGED <<uiVars, csvVars>>

\* sanitizeSegment(sanitizeSegment(segment))
CallSanitizeAgain ==
    /\ call.fn = "sanitizeSegment"
    /\ call' = [fn |-> "sanitizeSegment twice", segment |-> call.segment,
                once |-> call.result, result |-> sanitizeSegment(call.result)]
    /\ UNCHANGED <<uiVars, csvVars>>

\* validateSegment(segment)
CallValidate ==
    /\ call.fn = "input"
    /\ call' = [fn |-> "validateSegment", segment |-> call.segment,
                result |-> validateSegment(call.segment)]
    /\ UNCHANGED <<uiVars, csvVars>>

NextSanitize == CallSanitize \/ CallSanitizeAgain \/ CallValidate

SpecSanitize == InitSanitize /\ [][NextSanitize]_vars

(***************************************************************************)
(* getPdfStatus alone: called on a metadata store and a prefix             *)
(***************************************************************************)

\* Longest text of the distributor, the invoice number and the prefix.
MaxFieldLen == 1

FieldAlphabet == {"a", " ", Hyphen, "/"}

FieldTexts == UNION { [1..n -> FieldAlphabet] : n \in 0..MaxFieldLen }

\* Dates: empty, well-formed, and malformed in length, separators and digits.
DateTexts ==
    { <<>>,
      ADate,
      <<"2", "0", "2", "4", "-", "1", "-", "5">>,
      <<"2", "0", "2", "4", "0", "1", "0", "5">>,
      <<"2", "0", "2", "4", "/", "0", "1", "/", "0", "5">>,
      <<"2", "0", "2", "4", "-", "0", "1", "-", "0", "5", " ">>,
      <<"0", "2", "0", "2", "4", "-", "0", "1", "-", "0", "5">>,
      <<"2", "0", "2", "4", "-", "0", "1", "-", "0", "a">> }

StatusFile == File(<<"x", ".", "p", "d", "f">>, 1, 7, PdfMime)

InitStatus ==
    /\ files = << FileData(StatusFile) >>
    /\ selectedPdfKey = Null
    /\ metadata \in
         {EmptyRecord} \cup
         { [k \in {getFileKey(StatusFile)} |->
              [distributor |-> d, invoiceNumber |-> n, date |-> t]] :
           d \in FieldTexts, n \in FieldTexts, t \in DateTexts }
    /\ isAskingPrefix = TRUE
    /\ prefixValue \in FieldTexts
    /\ error = NoError
    /\ exports = <<>>
    /\ download = <<>>
    /\ overlap = 0
    /\ call \in { [fn |-> "input", key |-> getFileKey(StatusFile), includePrefix |-> b] :
                  b \in BOOLEAN }
    /\ CsvIdle

\* getPdfStatus(key, includePrefix)
CallGetPdfStatus ==
    /\ call.fn = "input"
    /\ call' = [fn |-> "getPdfStatus", key |-> call.key,
                includePrefix |-> call.includePrefix,
                result |-> getPdfStatus(call.key, call.includePrefix)]
    /\ UNCHANGED <<uiVars, csvVars>>

NextStatus == CallGetPdfStatus

SpecStatus == InitStatus /\ [][NextStatus]_vars

(***************************************************************************)
(* The CSV previewer (lines 15-104)                                        *)
(***************************************************************************)

\* Most Papa.parse calls that have not called back at one time.
MaxParses == 2

NewLine == "\n"

Semicolon == ";"

\* String.prototype.includes(part)
Includes(s, part) ==
    \E i \in 0..(Len(s) - Len(part)) : SubSeq(s, i + 1, i + Len(part)) = part

DotCsv == <<".", "c", "s", "v">>

Csv == <<"c", "s", "v">>

\* A file the user picks: its name, its MIME type and its text.
CsvFile(name, type, text) == [name |-> name, type |-> type, text |-> text]

\* The pieces of s between the occurrences of the separator.
RECURSIVE Split(_, _)
Split(s, separator) ==
    IF \E i \in 1..Len(s) : s[i] = separator
    THEN LET i == CHOOSE i \in 1..Len(s) : s[i] = separator /\ \A j \in 1..(i - 1) : s[j] # separator
         IN <<SubSeq(s, 1, i - 1)>> \o Split(SubSeq(s, i + 1, Len(s)), separator)
    ELSE <<s>>

RECURSIVE Join(_)
Join(row) == IF row = <<>> THEN <<>> ELSE Head(row) \o Join(Tail(row))

\* skipEmptyLines: 'greedy' (line 34): a line whose fields hold white space
\* only is left out.
GreedyEmpty(row) == Trim(Join(row)) = <<>>

\* Papa.parse(file, {header: false, skipEmptyLines: 'greedy', delimiter: ';'})
\* (lines 32-35): results.data, the fields of every line that is kept.
ParseCsv(text) ==
    LET lines == Split(text, NewLine)
        rows == [i \in 1..Len(lines) |-> Split(lines[i], Semicolon)]
    IN SelectSeq(rows, LAMBDA row : ~GreedyEmpty(row))

\* lines 38-42: the first line as headers, the others as rows.
ParsedCSVData(data) == [fields |-> data[1], rows |-> Tail(data)]

\* The files the user picks from: a table, a table of one column without a
\* MIME type, a file of white space, a CSV by its MIME type alone, and a
\* file that is no CSV.
CsvFiles ==
    { CsvFile(<<"a", ".", "c", "s", "v">>, <<"t", "e", "x", "t", "/", "c", "s", "v">>,
              <<"h", ";", "k", "\n", "1", ";", "2", "\n">>),
      CsvFile(<<"b", ".", "c", "s", "v">>, <<>>, <<"x", "\n", "y">>),
      CsvFile(<<"e", ".", "c", "s", "v">>, <<>>, <<" ", ";", "\n">>),
      CsvFile(<<"t", ".", "t", "x", "t">>, <<"t", "e", "x", "t", "/", "c", "s", "v">>,
              <<"h">>),
      CsvFile(<<"n", ".", "t", "x", "t">>, <<"t", "e", "x", "t", "/", "p", "l", "a", "i", "n">>,
              <<"h", ";", "k">>) }

\* line 22
IsCsvFile(file) == EndsWith(file.name, DotCsv) \/ Includes(file.type, Csv)

\* lines 20-51, up to the return of Papa.parse; the file comes from the file
\* input or from a drop (FileUploader, handleFileInput and handleDrop).
handleFile(file) ==
    /\ IsCsvFile(file) => Len(parsing) < MaxParses
    /\ IF ~IsCsvFile(file)
       THEN /\ csvError' = "Please select a valid CSV file"
            /\ UNCHANGED <<selectedFile, parsedData, parsing>>
       ELSE /\ selectedFile' = file
            /\ csvError' = ""
            /\ parsedData' = NoParsedData
            /\ parsing' = Append(parsing, file)
    /\ UNCHANGED <<uiVars, call>>

\* lines 36-46: the `complete` callback of the k-th parse.
ParseComplete(k) ==
    /\ k \in 1..Len(parsing)
    /\ LET data == ParseCsv(parsing[k].text) IN
       IF Len(data) > 0
       THEN /\ parsedData' = ParsedCSVData(data)
            /\ UNCHANGED csvError
       ELSE /\ csvError' = "CSV file is empty"
            /\ UNCHANGED parsedData
    /\ parsing' = RemoveAt(parsing, k)
    /\ UNCHANGED <<selectedFile, uiVars, call>>

\* lines 47-49: the `error` callback of the k-th parse (the file cannot be read).
ParseError(k) ==
    /\ k \in 1..Len(parsing)
    /\ csvError' = "Failed to parse CSV"
    /\ parsing' = RemoveAt(parsing, k)
    /\ UNCHANGED <<selectedFile, parsedData, uiVars, call>>

InitCsv ==
    /\ QuietUi
    /\ call = NoCall

NextCsv ==
    \/ \E file \in CsvFiles : handleFile(file)
    \/ \E k \in 1..Len(parsing) : ParseComplete(k)
    \/ \E k \in 1..Len(parsing) : ParseError(k)

SpecCsv == InitCsv /\ [][NextCsv]_vars

(***************************************************************************)
(* Properties of getPdfStatus (SpecStatus)                                 *)
(***************************************************************************)

\* Four digits, a hyphen, two digits, a hyphen, two digits, and nothing else.
IsoDateShaped(t) ==
    /\ Len(t) = 10
    /\ \A i \in 1..Len(t) : IF i \in {5, 8} THEN t[i] = "-" ELSE t[i] \in Digit

StatusCallDone == call.fn = "getPdfStatus"

HasRecord == call.key \in DOMAIN metadata

TheRecord == IF HasRecord THEN metadata[call.key] ELSE EmptyMetadata

\* Whether each rule of the resolver fails, in the order of the rules.
RuleFails ==
    << ~HasRecord,
       HasRecord /\ (TheRecord.distributor = <<>> \/ TheRecord.invoiceNumber = <<>>
                       \/ TheRecord.date = <<>>),
       HasRecord /\ ~IsoDateShaped(TheRecord.date),
       HasRecord /\ sanitizeSegment(TheRecord.distributor) = <<>>,
       HasRecord /\ sanitizeSegment(TheRecord.invoiceNumber) = <<>>,
       call.includePrefix /\ prefixValue # <<>> /\ sanitizeSegment(prefixValue) = <<>> >>

RuleOutcome ==
    << [status |-> "missing", message |-> "No metadata"],
       [status |-> "missing", message |-> "Missing fields"],
       [status |-> "invalid", message |-> "Invalid date format (YYYY-MM-DD)"],
       [status |-> "invalid", message |-> "Invalid distributor (empty after sanitization)"],
       [status |-> "invalid", message |-> "Invalid invoice number (empty after sanitization)"],
       [status |-> "invalid", message |-> "Invalid prefix"] >>

FailingRules == { i \in 1..6 : RuleFails[i] }

\* C5: getPdfStatus reports the outcome (status and message) of the first rule
\* that fails, in the order no record, empty field, date format, distributor,
\* invoice number, prefix; and ready when no rule fails.
C5_FirstFailingRule ==
    StatusCallDone =>
        IF FailingRules = {} THEN call.result = [status |-> "ready"]
        ELSE call.result =
               RuleOutcome[CHOOSE i \in FailingRules : \A j \in FailingRules : i <= j]

\* A record that fails the date rule and both sanitization rules, and the
\* prefix rule too: the date rule is reported.
C5_Witness ==
    /\ StatusCallDone
    /\ {3, 4, 5, 6} \subseteq FailingRules
    /\ 2 \notin FailingRules
    /\ call.result.message = "Invalid date format (YYYY-MM-DD)"

FieldsPresent ==
    /\ HasRecord
    /\ TheRecord.distributor # <<>>
    /\ TheRecord.invoiceNumber # <<>>
    /\ TheRecord.date # <<>>

FieldsSanitizeNonEmpty ==
    /\ sanitizeSegment(TheRecord.distributor) # <<>>
    /\ sanitizeSegment(TheRecord.invoiceNumber) # <<>>

PrefixRuleFails ==
    call.includePrefix /\ prefixValue # <<>> /\ sanitizeSegment(prefixValue) = <<>>

\* C6 as claimed: for a record, getPdfStatus returns ready if and only if the
\* three fields are non-empty, the date has the shape dddd-dd-dd and distributor
\* and invoice number sanitize to non-empty strings; missing whenever a field
\* is empty; invalid whenever the fields are non-empty and the date is misshapen.
C6_ReadyIffFieldsValid ==
    (StatusCallDone /\ HasRecord) =>
        /\ (call.result.status = "ready") <=>
              (FieldsPresent /\ IsoDateShaped(TheRecord.date) /\ FieldsSanitizeNonEmpty)
        /\ ~FieldsPresent => call.result.status = "missing"
        /\ (FieldsPresent /\ ~IsoDateShaped(TheRecord.date)) => call.result.status = "invalid"

\* C6 as amended: ... returns ready if and only if the three fields are
\* non-empty, the date has the shape dddd-dd-dd, distributor and invoice number
\* sanitize to non-empty strings, and the prefix rule does not fail (the call
\* does not include the prefix, or the prefix is empty or sanitizes to a
\* non-empty string); missing and invalid as claimed.
C6_ReadyIffFieldsAndPrefixValid ==
    (StatusCallDone /\ HasRecord) =>
        /\ (call.result.status = "ready") <=>
              (/\ FieldsPresent
               /\ IsoDateShaped(TheRecord.date)
               /\ FieldsSanitizeNonEmpty
               /\ ~PrefixRuleFails)
        /\ ~FieldsPresent => call.result.status = "missing"
        /\ (FieldsPresent /\ ~IsoDateShaped(TheRecord.date)) => call.result.status = "invalid"

\* A record with every field in order is not ready, for the prefix of the call.
C6_Witness ==
    /\ StatusCallDone
    /\ FieldsPresent /\ IsoDateShaped(TheRecord.date) /\ FieldsSanitizeNonEmpty
    /\ PrefixRuleFails
    /\ call.result.status = "invalid"

(***************************************************************************)
(* Properties of sanitizeSegment and validateSegment (SpecSanitize)        *)
(***************************************************************************)

\* C7: sanitizeSegment is idempotent: sanitizing the result of a call again
\* returns that result.
C7_SanitizeIdempotent ==
    call.fn = "sanitizeSegment twice" => call.result = call.once

\* A string the first call changed into a non-empty one has been sanitized twice.
C7_Witness ==
    /\ call.fn = "sanitizeSegment twice"
    /\ call.once # call.segment
    /\ call.once # <<>>
    /\ \E i \in 1..Len(call.segment) : call.segment[i] \in Reserved

\* C8: the result of sanitizeSegment neither starts nor ends with a hyphen,
\* holds no two hyphens in a row, no whitespace and none of / \ : * ? " < > |;
\* and sanitizeSegment("  a//b::c  ") is "a-b-c".
C8_SanitizedShape ==
    call.fn = "sanitizeSegment" =>
        LET r == call.result IN
        /\ r # <<>> => (r[1] # "-" /\ r[Len(r)] # "-")
        /\ \A i \in 1..(Len(r) - 1) : ~(r[i] = "-" /\ r[i + 1] = "-")
        /\ \A i \in 1..Len(r) :
              r[i] \notin {" ", "\t", "/", "\\", ":", "*", "?", "\"", "<", ">", "|"}
        /\ call.segment = ExampleSegment => r = <<"a", "-", "b", "-", "c">>

\* The example of the claim has been sanitized.
C8_Witness ==
    /\ call.fn = "sanitizeSegment"
    /\ call.segment = ExampleSegment
    /\ call.result = <<"a", "-", "b", "-", "c">>

\* C9: a segment is valid exactly when its sanitized form is non-empty; the
\* empty string and the strings of whitespace alone sanitize to the empty
\* string and are invalid; a string with a character that is neither
\* whitespace, nor a hyphen, nor one of / \ : * ? " < > | is valid.
C9_ValidIffSanitizedNonEmpty ==
    call.fn = "validateSegment" =>
        LET x == call.segment IN
        /\ call.result <=> (sanitizeSegment(x) # <<>>)
        /\ (\A i \in 1..Len(x) : x[i] \in {" ", "\t"}) =>
              (~call.result /\ sanitizeSegment(x) = <<>>)
        /\ (\E i \in 1..Len(x) :
              x[i] \notin {" ", "\t", "-", "/", "\\", ":", "*", "?", "\"", "<", ">", "|"})
              => call.result

\* A string of whitespace, a reserved character and a letter is found valid.
C9_Witness ==
    /\ call.fn = "validateSegment"
    /\ call.result
    /\ \E i \in 1..Len(call.segment) : call.segment[i] \in WhiteSpace
    /\ \E i \in 1..Len(call.segment) : call.segment[i] \in Reserved

(***************************************************************************)
(* Properties of the export (SpecExport)                                   *)
(***************************************************************************)

\* The handleConfirmExport calls: those suspended and the one that has just
\* handed its archive to the browser.
ExportCalls ==
    { exports[k] : k \in 1..Len(exports) } \cup
    { download[k].export : k \in 1..Len(download) }

PairwiseDistinct(s) == \A i, j \in 1..Len(s) : i # j => s[i] # s[j]

\* C1: a confirmed export gives every file of the list, passthrough or
\* renamable, one output name, the names are pairwise distinct, and the
\* archive has as many entries as the list has files.
C1_OneDistinctNamePerFile ==
    /\ \A e \in ExportCalls :
          /\ PairwiseDistinct(e.filenames)
          /\ Cardinality(DOMAIN e.zipContents) = Len(e.filenames)
          /\ \A i \in 1..Len(e.filenames) :
                e.zipContents[e.filenames[i]] = ExportOrder(e)[i].file
    /\ \A k \in 1..Len(download) :
          /\ Len(download[k].export.filenames) = Len(files)
          /\ Cardinality(DOMAIN download[k].export.zipContents) = Len(files)

\* An archive of four files, where a passthrough file and a PDF each lost
\* their first name to another file.
C1_Witness ==
    /\ download # <<>>
    /\ LET e == download[1].export IN
       /\ Len(e.filenames) = 4
       /\ \E i \in 1..Len(e.otherFiles) : e.filenames[i] # e.otherFiles[i].file.name
       /\ \E i \in (Len(e.otherFiles) + 1)..Len(e.filenames) :
             EndsWith(e.filenames[i], <<"-", "2", ".", "p", "d", "f">>)

\* The number of the i-th passthrough file among those of its name, in input order.
OrdinalOfName(e, i) ==
    Cardinality({ j \in 1..i : e.otherFiles[j].file.name = e.otherFiles[i].file.name })

\* A name has an extension when a dot follows its first character; the
\* extension starts at the last dot.
ExtensionStart(name) ==
    IF \E p \in 2..Len(name) : name[p] = "."
    THEN CHOOSE p \in 2..Len(name) : name[p] = "." /\ \A q \in (p + 1)..Len(name) : name[q] # "."
    ELSE Len(name) + 1

\* name with -k before its extension, or at its end when it has none.
NameNumbered(name, k) ==
    SubSeq(name, 1, ExtensionStart(name) - 1) \o <<"-">> \o NumberToString(k)
      \o SubSeq(name, ExtensionStart(name), Len(name))

\* The name the claim gives the i-th passthrough file.
ClaimedOtherName(e, i) ==
    IF OrdinalOfName(e, i) = 1 THEN e.otherFiles[i].file.name
    ELSE NameNumbered(e.otherFiles[i].file.name, OrdinalOfName(e, i))

ATxt == <<"a", ".", "t", "x", "t">>

\* C10: of the passthrough files of one name, the first in input order keeps
\* the name and the k-th receives the name with -k before its extension (at
\* its end when it has none), provided no file before it holds that name; two
\* files a.txt become a.txt and a-2.txt.
C10_PassthroughNumbering ==
    \A e \in ExportCalls :
        /\ \A i \in 1..Len(e.filenames) :
              (/\ i <= Len(e.otherFiles)
               /\ \A j \in 1..(i - 1) : e.filenames[j] # ClaimedOtherName(e, i))
              => e.filenames[i] = ClaimedOtherName(e, i)
        /\ (/\ Len(e.filenames) >= 2
            /\ [i \in 1..Len(e.otherFiles) |-> e.otherFiles[i].file.name] = <<ATxt, ATxt>>)
              => SubSeq(e.filenames, 1, 2) = << ATxt, <<"a", "-", "2", ".", "t", "x", "t">> >>

\* Three files a.txt have become a.txt, a-2.txt and a-3.txt.
C10_Witness ==
    /\ download # <<>>
    /\ Len(download[1].export.filenames) >= 3
    /\ SubSeq(download[1].export.filenames, 1, 3) =
         << ATxt, <<"a", "-", "2", ".", "t", "x", "t">>, <<"a", "-", "3", ".", "t", "x", "t">> >>

\* The record the call e exports its i-th PDF with.
ExportPdfMeta(e, i) == e.metadata[e.pdfFiles[i].key]

\* The candidate name of the i-th PDF of the call e, less its extension.
PdfCandidate(e, i) ==
    sanitizeSegment(e.prefixValue) \o <<"-">>
      \o sanitizeSegment(ExportPdfMeta(e, i).distributor) \o <<"-">>
      \o sanitizeSegment(ExportPdfMeta(e, i).invoiceNumber) \o <<"-">>
      \o Trim(ExportPdfMeta(e, i).date)

ExportPdfReady(e, i) ==
    PdfStatusIn(e.metadata, e.prefixValue, e.pdfFiles[i].key, TRUE).status = "ready"

\* The number of the i-th PDF among the ready PDFs of its candidate name, in
\* input order.
OrdinalOfCandidate(e, i) ==
    Cardinality({ j \in 1..i : ExportPdfReady(e, j) /\ PdfCandidate(e, j) = PdfCandidate(e, i) })

\* The name the claim gives the i-th PDF.
ClaimedPdfName(e, i) ==
    IF OrdinalOfCandidate(e, i) = 1 THEN PdfCandidate(e, i) \o DotPdf
    ELSE PdfCandidate(e, i) \o <<"-">> \o NumberToString(OrdinalOfCandidate(e, i)) \o DotPdf

\* The name the call e has given its i-th PDF.
ExportedPdfName(e, i) == e.filenames[Len(e.otherFiles) + i]

\* C11: of the ready PDFs of one candidate name
\* sanitize(prefix)-sanitize(distributor)-sanitize(invoiceNumber)-trim(date),
\* the first in input order receives the candidate with .pdf and the k-th
\* receives it with -k before .pdf.
C11_PdfNumbering ==
    \A e \in ExportCalls :
        \A i \in 1..Len(e.pdfFiles) :
            (Len(e.filenames) >= Len(e.otherFiles) + i /\ ExportPdfReady(e, i))
               => ExportedPdfName(e, i) = ClaimedPdfName(e, i)

\* An archive of three ready PDFs: the first and the third have one candidate
\* name, the second has another, and the third was named with -2.
C11_Witness ==
    /\ download # <<>>
    /\ LET e == download[1].export IN
       /\ Len(e.pdfFiles) = 3
       /\ \A i \in 1..3 : ExportPdfReady(e, i)
       /\ PdfCandidate(e, 2) # PdfCandidate(e, 1)
       /\ PdfCandidate(e, 3) = PdfCandidate(e, 1)
       /\ ExportedPdfName(e, 1) = PdfCandidate(e, 1) \o DotPdf
       /\ ExportedPdfName(e, 2) = PdfCandidate(e, 2) \o DotPdf
       /\ ExportedPdfName(e, 3) = PdfCandidate(e, 1) \o <<"-", "2">> \o DotPdf

\* C16: every name given to a PDF ends in .pdf, no name given to a
\* passthrough file ends in .pdf in any letter case, and so no name of the one
\* class is a name of the other.
C16_ClassesNeverCollide ==
    \A e \in ExportCalls :
        /\ \A i \in 1..Len(e.filenames) :
              IF ExportOrder(e)[i].isPdf
              THEN EndsWith(e.filenames[i], DotPdf)
              ELSE ~EndsWith(ToLowerCase(e.filenames[i]), DotPdf)
        /\ \A i, j \in 1..Len(e.filenames) :
              ExportOrder(e)[i].isPdf # ExportOrder(e)[j].isPdf
                 => e.filenames[i] # e.filenames[j]

\* An archive of a numbered passthrough file and a numbered PDF, one of its
\* PDFs being a PDF by the upper-case extension of its name alone.
C16_Witness ==
    /\ download # <<>>
    /\ LET e == download[1].export IN
       /\ Len(e.otherFiles) = 2
       /\ Len(e.pdfFiles) = 2
       /\ e.filenames[2] = OtherNameWithCounter(e.otherFiles[2].file.name, 2)
       /\ \E i \in 1..2 : e.pdfFiles[i].file.type # PdfMime
       /\ ExportedPdfName(e, 2) = PdfCandidate(e, 1) \o <<"-", "2">> \o DotPdf

(***************************************************************************)
(* Properties of the tool (Spec)                                           *)
(***************************************************************************)

\* Every PDF of the call e was ready, the prefix included, when e was confirmed.
ConfirmedReady(e) ==
    \A i \in 1..Len(e.pdfFiles) :
        PdfStatusIn(e.metadata, e.prefixValue, e.pdfFiles[i].key, TRUE).status = "ready"

\* C2: a confirmed export fails and produces no archive when, at the
\* confirmation, the prefix is invalid or a renamable item of the list has a
\* status other than ready (includePrefix = true): an archive comes only from a
\* confirmation with a valid prefix and every renamable item ready.
C2_ArchiveOnlyWhenAllReady ==
    \A k \in 1..Len(download) :
        /\ validateSegment(download[k].export.prefixValue)
        /\ ConfirmedReady(download[k].export)

\* Some PDF of the list has the status missing or invalid (includePrefix = true).
SomePdfNotReady ==
    \E i \in 1..Len(pdfFiles) :
        getPdfStatus(pdfFiles[i].key, TRUE).status \in {"missing", "invalid"}

EveryPdfReady ==
    \A i \in 1..Len(pdfFiles) : getPdfStatus(pdfFiles[i].key, TRUE).status = "ready"

\* The gate agrees with the statuses of the PDFs of the list in this state.
GateFollowsStatuses ==
    /\ SomePdfNotReady => ~allPdfsReady
    /\ EveryPdfReady => allPdfsReady

\* C3: the gate allPdfsReady is false in every state where a renamable item is
\* missing or invalid, and true in every state where every renamable item is
\* ready, the state right after an edit that makes them ready included (the
\* gate is computed from the state, it is not stored); and the prefix prompt
\* opens only from a state where the gate is true.
C3_ExportGate ==
    /\ []GateFollowsStatuses
    /\ [][(~isAskingPrefix /\ isAskingPrefix') => allPdfsReady]_vars

\* The prompt is open on two different PDFs, one of them not ready again.
C3_Witness ==
    /\ isAskingPrefix
    /\ Len(pdfFiles) = 2
    /\ pdfFiles[1].key # pdfFiles[2].key
    /\ getPdfStatus(pdfFiles[1].key, TRUE).status = "ready"
    /\ getPdfStatus(pdfFiles[2].key, TRUE).status = "invalid"
    /\ ~allPdfsReady

\* C4: an upload of a batch that, with the files of the list, exceeds the
\* maximum adds nothing: files, metadata and selection are unchanged and the
\* error tells the counts; so the list never holds more files than the maximum.
C4_BatchOverLimitRejected ==
    [][ /\ \A fileList \in FileLists :
              (handleFileSelect(fileList) /\ Len(files) + Len(fileList) > MAX_FILES) =>
                  /\ files' = files
                  /\ metadata' = metadata
                  /\ selectedPdfKey' = selectedPdfKey
                  /\ error' = [kind |-> "Cannot add files", adding |-> Len(fileList),
                               limit |-> MAX_FILES, current |-> Len(files)]
        /\ Len(files) <= MAX_FILES
        /\ Len(files') <= MAX_FILES ]_vars

\* A batch has been rejected, and the list is below the maximum still.
C4_Witness ==
    /\ error.kind = "Cannot add files"
    /\ error.adding + error.current > MAX_FILES
    /\ Len(files) = error.current
    /\ Len(files) < MAX_FILES

\* The keys of the PDFs of the file list fs.
PdfKeysOf(fs) == { PdfFilesOf(fs)[i].key : i \in 1..Len(PdfFilesOf(fs)) }

MetadataKeysArePdfKeys == DOMAIN metadata = PdfKeysOf(files)

\* C12: between events, the metadata store has a record for exactly the keys
\* of the PDFs of the list; an event that changes the list gives every PDF
\* that is new to it an empty record and leaves the record of every PDF that
\* stays in it as it was.
C12_MetadataKeysFollowFiles ==
    /\ []MetadataKeysArePdfKeys
    /\ [][ files' # files =>
             \A k \in PdfKeysOf(files') :
                /\ k \in DOMAIN metadata'
                /\ metadata'[k] = IF k \in PdfKeysOf(files) /\ k \in DOMAIN metadata
                                  THEN metadata[k] ELSE EmptyMetadata ]_vars

\* A batch was rejected on a list of two files, one of them has been removed
\* since, and the PDF that stays has the record the user filled in.
C12_Witness ==
    /\ error.kind = "Cannot add files"
    /\ error.current = 2
    /\ Len(files) = 1
    /\ files[1].isPdf
    /\ DOMAIN metadata = {files[1].key}
    /\ metadata[files[1].key].distributor # <<>>

\* The Export ZIP button is on the page (lines 812-822), enabled or not.
ExportButtonShown == Len(pdfFiles) > 0 /\ ~isAskingPrefix

\* The PDFs that make the gate false: not ready with includePrefix = true.
NotReadyPdfs ==
    { i \in 1..Len(pdfFiles) : getPdfStatus(pdfFiles[i].key, TRUE).status # "ready" }

\* The key of the one of lowest index among them.
FirstNotReadyKey ==
    pdfFiles[CHOOSE i \in NotReadyPdfs : \A j \in NotReadyPdfs : i <= j].key

\* C13: where the Export ZIP button is shown and the gate is false, export
\* can be requested, and the request selects the PDF of lowest index among
\* those that are not ready with includePrefix = true.
C13_FirstNotReadySurfaced ==
    (ExportButtonShown /\ ~allPdfsReady) =>
        ENABLED (handleExportClick /\ selectedPdfKey' = FirstNotReadyKey)

\* C14: from the confirmation of an export to the state update that ends it
\* (the prompt closed and the prefix cleared, or the failure message set) no
\* user event is handled: a step taken while a handleConfirmExport call is
\* suspended either ends a call or leaves the state the user events change as
\* it is and starts no second call.
C14_NoEventDuringExport ==
    [][ exports # <<>> =>
          \/ Len(exports') < Len(exports)
          \/ /\ Len(exports') = Len(exports)
             /\ UNCHANGED <<files, selectedPdfKey, metadata, isAskingPrefix,
                            prefixValue, error>> ]_vars

SelectionInList == selectedPdfKey = Null \/ selectedPdfKey \in PdfKeysOf(files)

\* C17: the selected key is null or the key of a PDF of the list; a step that
\* takes the selected PDF out of the list (its removal, or Clear All) sets the
\* selection to null.
C17_SelectionInList ==
    /\ []SelectionInList
    /\ [][ (selectedPdfKey # Null /\ selectedPdfKey \notin PdfKeysOf(files'))
              => selectedPdfKey' = Null ]_vars

\* A batch was rejected on a list of two files; the selected PDF has been
\* removed since and nothing is selected, while the PDF that was selected and
\* filled in before it is still listed.
C17_Witness ==
    /\ error.kind = "Cannot add files"
    /\ error.current = 2
    /\ Len(files) = 1
    /\ files[1].isPdf
    /\ files[1].key \in DOMAIN metadata
    /\ metadata[files[1].key].invoiceNumber # <<>>
    /\ selectedPdfKey = Null

\* C15: wherever the CSV previewer shows a preview, its headers and rows are
\* those parsed from the file that is selected.
C15_PreviewOfSelectedFile ==
    parsedData # NoParsedData =>
        /\ selectedFile # NoSelectedFile
        /\ LET data == ParseCsv(selectedFile.text) IN
           /\ Len(data) > 0
           /\ parsedData = ParsedCSVData(data)

====
